---- MODULE Spec2Model ----
(***************************************************************************)
(* SidebarProvider (src/sapling/src/SidebarProvider.ts): the controller    *)
(* that keeps one SaplingParser session in step with a webview view.       *)
(*                                                                         *)
(* The state is the provider's fields (_view, parser), the listeners that  *)
(* resolveWebviewView has registered (one set per resolved view, each      *)
(* closing over its own webviewView) and the handlers suspended at an      *)
(* await.  The provider keeps nothing else: what a handler reads from the  *)
(* host at the moment it runs (the active editor, the file on disk, the    *)
(* "sapling" settings, webviewView.visible) is an input of its action.     *)
(* Every host event runs all listeners registered for it, in registration  *)
(* order, each to completion.                                              *)
(*                                                                         *)
(* SaplingParser (./parser) is not part of the sources at hand; it is      *)
(* modelled from its interface description: construct, parse, updateTree,  *)
(* getTree, toggleNode, tree.fileName.                                     *)
(***************************************************************************)
EXTENDS Integers, Sequences, FiniteSets, Bags, TLC

(* ------------------------------ bounds --------------------------------- *)
\* view objects the host ever hands to resolveWebviewView / revive
MaxViews == 2
\* handlers suspended at an await at the same time
MaxPending == 1

Views == 1..MaxViews
Files == {"src/a.jsx", "src/b.jsx"}
\* what a parse may find in a file on disk at the time it reads it
Contents == {"old", "new"}
SettingsViews == {"tree", "list"}
\* node ids a toggle may name: RootId is in every tree, OtherId in none
RootId == "root"
OtherId == "other"
NodeIds == {RootId, OtherId}

(* --------------------------- absent values ----------------------------- *)
\* this._view === undefined
NoView == 0
\* this.parser === undefined
NoParser == [absent |-> "parser"]
\* parser.tree before parse() has run
NoTree == [absent |-> "tree"]
\* vscode.window.activeTextEditor === undefined / the event's e === undefined
NoDoc == "<no editor>"
\* data.value === undefined
Undefined == "<undefined>"
\* JavaScript truthiness of a string-or-undefined value: !value
Falsy(value) == value \in {"", Undefined}
\* what data.value may be for onFile / onViewFile
Values == Files \cup {"", Undefined}
\* what the active editor's document.fileName may be when a handler looks
Editors == Files \cup {"", NoDoc}

VARIABLES
    _view,          \* this._view: NoView or a view
    parser,         \* this.parser: NoParser or [id, file, tree]
    resolved,       \* number of resolveWebviewView calls: views 1..resolved have listeners
    pending,        \* handlers suspended at an await (a bag)
    ev,             \* the event or command handled last
    sent,           \* postMessage calls made while handling it, in order
    calls,          \* parser operations called while handling it, in order
    fault,          \* whether a handler raised (TypeError on undefined) while handling it
    lastResult      \* the tree returned by the most recent parse/updateTree/getTree

vars == <<_view, parser, resolved, pending,
          ev, sent, calls, fault, lastResult>>

(* ----------------------- SaplingParser (./parser) ---------------------- *)
\* tree.fileName: the short name of a path
ShortName(path) ==
    CASE path = "src/a.jsx" -> "a.jsx"
      [] path = "src/b.jsx" -> "b.jsx"
      [] OTHER -> path

\* new SaplingParser(filePath): a new instance bound to the file, no tree yet.
\* An instance is told from the one it replaces (old) by its id.
NewParser(old, filePath) ==
    [id |-> IF old = NoParser THEN 0 ELSE 1 - old.id, file |-> filePath, tree |-> NoTree]

\* parse(): a full parse of the bound file as found on disk; every node collapsed
parse(p, disk) ==
    [p EXCEPT !.tree = [owner |-> p.id, filePath |-> p.file,
                        fileName |-> ShortName(p.file),
                        content |-> disk, expanded |-> FALSE]]

\* updateTree(filePath): re-derive the nodes of that file, keeping expanded flags
updateTree(p, filePath, disk) ==
    IF p.tree # NoTree /\ p.tree.filePath = filePath
    THEN [p EXCEPT !.tree.content = disk]
    ELSE p

\* getTree(): the last computed tree, no recomputation
getTree(p) == p.tree

\* toggleNode(id, expanded): set one node's flag in place; unknown ids change nothing
toggleNode(p, id, expanded) ==
    IF p.tree # NoTree /\ id = RootId
    THEN [p EXCEPT !.tree.expanded = expanded]
    ELSE p

(* --------------------- a handler's running context --------------------- *)
\* what a handler reads and writes of the provider, and what it emits
Ctl(p, lr) ==
    [parser |-> p, lastResult |-> lr, sent |-> <<>>, calls |-> <<>>, fault |-> FALSE]

\* a string payload of a message
Str(s) == [str |-> s]

\* <webview>.postMessage({type, value}) on view `to`
postMessage(c, to, type, value) ==
    [c EXCEPT !.sent = Append(@, [to |-> to, type |-> type, value |-> value])]

\* a property read on undefined: the handler stops with a TypeError
Throw(c) == [c EXCEPT !.fault = TRUE]

\* a parser operation is called
Called(c, op) == [c EXCEPT !.calls = Append(@, op)]

\* the views whose listeners are registered, in registration order
Listeners == [i \in 1..resolved |-> i]

\* the event handled, the value it carried or read from the host and, for a save,
\* what webviewView.visible was for each listener's view and what updateTree
\* found on disk
Event(type, value) == [type |-> type, value |-> value, visible |-> <<>>, disk |-> ""]

(* ------------- listeners registered by resolveWebviewView -------------- *)
\* vscode.workspace.onDidChangeConfiguration((e) => ...)
onDidChangeConfiguration(webviewView, settingsView, c) ==
    postMessage(c, webviewView, "settings-data", Str(settingsView))

\* an active-editor listener without the guard on e
onDidChangeActiveTextEditor_Unguarded(webviewView, e, c) ==
    IF e = NoDoc THEN Throw(c)
    ELSE postMessage(c, webviewView, "current-tab", Str(e))

\* vscode.window.onDidChangeActiveTextEditor((e) => ...)
onDidChangeActiveTextEditor(webviewView, e, c) ==
    IF e = NoDoc THEN c
    ELSE postMessage(c, webviewView, "current-tab", Str(e))

\* a save listener that forgets the visibility gate
onDidSaveTextDocument_Ungated(webviewView, fileName, disk, isVisible, c) ==
    IF c.parser = NoParser THEN c
    ELSE LET p == updateTree(c.parser, fileName, disk)
             c1 == [Called(c, "updateTree") EXCEPT !.parser = p, !.lastResult = p.tree]
         IN  postMessage(c1, webviewView, "parsed-data", p.tree)

\* a save listener that opens the saved file as a new session
onDidSaveTextDocument_Reopens(webviewView, fileName, disk, isVisible, c) ==
    IF c.parser = NoParser THEN c
    ELSE LET p == parse(NewParser(c.parser, fileName), disk)
             c1 == [Called(Called(c, "new"), "parse") EXCEPT
                        !.parser = p, !.lastResult = p.tree]
         IN  IF isVisible[webviewView]
             THEN postMessage(c1, webviewView, "parsed-data", p.tree)
             ELSE c1

\* a save listener that leaves the tree alone while its view is not visible
onDidSaveTextDocument_SkipsHidden(webviewView, fileName, disk, isVisible, c) ==
    IF c.parser = NoParser \/ ~isVisible[webviewView] THEN c
    ELSE LET p == updateTree(c.parser, fileName, disk)
             c1 == [Called(c, "updateTree") EXCEPT !.parser = p, !.lastResult = p.tree]
         IN  postMessage(c1, webviewView, "parsed-data", p.tree)

\* vscode.workspace.onDidSaveTextDocument((document) => ...)
onDidSaveTextDocument(webviewView, fileName, disk, isVisible, c) ==
    IF c.parser = NoParser THEN c
    ELSE LET p == updateTree(c.parser, fileName, disk)
             parsed == p.tree
             c1 == [Called(c, "updateTree") EXCEPT !.parser = p, !.lastResult = parsed]
         IN  IF isVisible[webviewView]
             THEN postMessage(c1, webviewView, "parsed-data", parsed)
             ELSE c1

\* webviewView.onDidChangeVisibility((e) => {})
onDidChangeVisibility(webviewView, c) == c

\* a dispose hook that drops the session with the view
onDidDispose_DropsSession(webviewView, c) ==
    [c EXCEPT !.parser = NoParser, !.lastResult = NoTree]

\* webviewView.onDidDispose((e) => {})
onDidDispose(webviewView, c) == c

\* the listener that the resolveWebviewView call for webviewView registered for
\* host event e (disk: what a parse finds on disk while it is handled)
Listener(e, disk, webviewView, c) ==
    CASE e.type = "configuration-changed" ->
            onDidChangeConfiguration(webviewView, e.value, c)
      [] e.type = "active-editor-changed" ->
            onDidChangeActiveTextEditor(webviewView, e.value, c)
      [] e.type = "document-saved" ->
            onDidSaveTextDocument(webviewView, e.value, disk, e.visible, c)

\* the host fires event e: every registered listener runs, in registration order
RECURSIVE Dispatch(_, _, _, _)
Dispatch(e, disk, listeners, c) ==
    IF listeners = <<>> THEN c
    ELSE Dispatch(e, disk, Tail(listeners), Listener(e, disk, Head(listeners), c))

(* ------ webviewView.webview.onDidReceiveMessage(async (data) => ...) ---- *)
\* an onFile that keeps the parser it has and only re-derives its tree
onFile_ReusesParser(webviewView, value, disk, c) ==
    IF Falsy(value) THEN c
    ELSE LET p == IF c.parser = NoParser
                  THEN parse(NewParser(c.parser, value), disk)
                  ELSE updateTree(c.parser, value, disk)
             c1 == [Called(c, "parse") EXCEPT !.parser = p, !.lastResult = p.tree]
         IN  postMessage(c1, webviewView, "parsed-data", p.tree)

\* an onFile whose guard tests for undefined only, so that "" opens a file
onFile_UndefinedOnly(webviewView, value, disk, c) ==
    IF value = Undefined THEN c
    ELSE LET p == parse(NewParser(c.parser, value), disk)
             c1 == [Called(Called(c, "new"), "parse") EXCEPT
                        !.parser = p, !.lastResult = p.tree]
         IN  postMessage(c1, webviewView, "parsed-data", p.tree)

\* an onFile that binds the new parser and never parses
onFile_NeverParses(webviewView, value, disk, c) ==
    IF Falsy(value) THEN c
    ELSE LET p == NewParser(c.parser, value)
         IN  postMessage([Called(c, "new") EXCEPT !.parser = p],
                         webviewView, "parsed-data", p.tree)

\* an onFile that also announces the file name
onFile_SendsName(webviewView, value, disk, c) ==
    IF Falsy(value) THEN c
    ELSE LET p == parse(NewParser(c.parser, value), disk)
             c1 == [Called(Called(c, "new"), "parse") EXCEPT
                        !.parser = p, !.lastResult = p.tree]
         IN  postMessage(postMessage(c1, webviewView, "parsed-data", p.tree),
                         webviewView, "saved-file", Str(p.tree.fileName))

\* an onFile that sends the tree it read before binding the new parser
onFile_PostsReplacedTree(webviewView, value, disk, c) ==
    IF Falsy(value) THEN c
    ELSE LET p == parse(NewParser(c.parser, value), disk)
             c1 == [Called(Called(c, "new"), "parse") EXCEPT
                        !.parser = p, !.lastResult = p.tree]
         IN  postMessage(c1, webviewView, "parsed-data",
                         IF c.parser = NoParser THEN p.tree ELSE c.parser.tree)

\* case "onFile"
onFile(webviewView, value, disk, c) ==
    IF Falsy(value) THEN c
    ELSE LET p == parse(NewParser(c.parser, value), disk)
             parsed == p.tree
             c1 == [Called(Called(c, "new"), "parse") EXCEPT
                        !.parser = p, !.lastResult = parsed]
         IN  postMessage(c1, webviewView, "parsed-data", parsed)

\* case "onViewFile", up to its first await: TRUE when the handler goes on to
\* await vscode.workspace.openTextDocument(data.value)
onViewFile(value) == ~Falsy(value)

\* an onSaplingVisible that sends the file name before the tree
onSaplingVisible_NameFirst(webviewView, c) ==
    IF c.parser = NoParser THEN c
    ELSE LET parsed == getTree(c.parser)
             c1 == [Called(c, "getTree") EXCEPT !.lastResult = parsed]
         IN  postMessage(postMessage(c1, webviewView, "saved-file",
                                     Str(c.parser.tree.fileName)),
                         webviewView, "parsed-data", parsed)

\* an onSaplingVisible without the guard on this.parser
onSaplingVisible_Unguarded(webviewView, c) ==
    IF c.parser = NoParser THEN Throw(c)
    ELSE LET parsed == getTree(c.parser)
             c1 == postMessage([Called(c, "getTree") EXCEPT !.lastResult = parsed],
                               webviewView, "parsed-data", parsed)
         IN  postMessage(c1, webviewView, "saved-file", Str(c.parser.tree.fileName))

\* case "onSaplingVisible"
onSaplingVisible(webviewView, c) ==
    IF c.parser = NoParser THEN c
    ELSE LET parsed == getTree(c.parser)
             c1 == postMessage([Called(c, "getTree") EXCEPT !.lastResult = parsed],
                               webviewView, "parsed-data", parsed)
         IN  IF c.parser.tree = NoTree THEN Throw(c1)
             ELSE postMessage(c1, webviewView, "saved-file", Str(c.parser.tree.fileName))

\* an onSettingsAcquire that answers with a value kept from earlier
onSettingsAcquire_Cached(webviewView, settingsView, c) ==
    postMessage(c, webviewView, "settings-data", Str("tree"))

\* case "onSettingsAcquire", after its await: settings.view is read from the
\* configuration object and sent
onSettingsAcquire(webviewView, settingsView, c) ==
    postMessage(c, webviewView, "settings-data", Str(settingsView))

\* case "onNodeToggle"; the tree is changed in place, so a reference to the same
\* tree object (the one lastResult holds, when this parser produced it) sees the change
onNodeToggle(id, expanded, c) ==
    IF c.parser = NoParser THEN Throw(c)
    ELSE LET p == toggleNode(c.parser, id, expanded)
         IN  [Called(c, "toggleNode") EXCEPT
                 !.parser = p,
                 !.lastResult = IF @ # NoTree /\ @.owner = p.id THEN p.tree ELSE @]

\* case "onBoldCheck"
onBoldCheck(view, editor, c) ==
    IF editor = NoDoc THEN Throw(c)
    ELSE IF view = NoView THEN Throw(c)
    ELSE postMessage(c, view, "current-tab", Str(editor))

(* ----------------------------- commands -------------------------------- *)
\* a statusButtonClicked that sends the tree and not the file name
statusButtonClicked_TreeOnly(view, editor, disk, c) ==
    IF editor = NoDoc THEN Throw(c)
    ELSE IF Falsy(editor) THEN c
    ELSE LET p == parse(NewParser(c.parser, editor), disk)
             parsed == getTree(p)
             c1 == [Called(Called(Called(c, "new"), "parse"), "getTree") EXCEPT
                        !.parser = p, !.lastResult = parsed]
         IN  IF view = NoView THEN Throw(c1)
             ELSE postMessage(c1, view, "parsed-data", parsed)

\* public statusButtonClicked = () => ...
statusButtonClicked(view, editor, disk, c) ==
    IF editor = NoDoc THEN Throw(c)
    ELSE IF Falsy(editor) THEN c
    ELSE LET p == parse(NewParser(c.parser, editor), disk)
             parsed == getTree(p)
             c1 == [Called(Called(Called(c, "new"), "parse"), "getTree") EXCEPT
                        !.parser = p, !.lastResult = parsed]
         IN  IF view = NoView THEN Throw(c1)
             ELSE postMessage(postMessage(c1, view, "parsed-data", parsed),
                              view, "saved-file", Str(p.tree.fileName))

\* public revive(panel)
revive(panel) == panel

(* ------------------------------ actions -------------------------------- *)
Start == Ctl(parser, lastResult)

\* the provider's state after a handler (or all listeners of an event) has run
Finish(c) ==
    LET done == c IN
    /\ parser' = done.parser
    /\ lastResult' = done.lastResult
    /\ sent' = done.sent
    /\ calls' = done.calls
    /\ fault' = done.fault

\* a handler suspended at the await of `at`, with what its continuation still uses:
\* the webviewView it posts to
Suspended(at, view) == [at |-> at, view |-> view]

\* recorded with an onSaplingVisible command: the event handled just before it was
\* a save that the commanding view, not visible then, got no parsed-data for
AfterHiddenSave == "after a hidden save"

\* a view whose webview has an onDidReceiveMessage listener of this provider
Live(v) == v \in 1..resolved

Init ==
    /\ _view = NoView
    /\ parser = NoParser
    /\ resolved = 0
    /\ pending = EmptyBag
    /\ ev = Event("constructor", "")
    /\ sent = <<>>
    /\ calls = <<>>
    /\ fault = FALSE
    /\ lastResult = NoTree

\* the host resolves a new view: this._view = webviewView, and the listeners
\* are registered
ResolveWebviewView ==
    /\ resolved < MaxViews
    /\ resolved' = resolved + 1
    /\ _view' = resolved + 1
    /\ ev' = Event("resolveWebviewView", "")
    /\ Finish(Start)
    /\ UNCHANGED pending

Revive ==
    \E panel \in Views :
        /\ _view' = revive(panel)
        /\ ev' = Event("revive", "")
        /\ Finish(Start)
        /\ UNCHANGED <<resolved, pending>>

ConfigurationChanged ==
    \E s \in SettingsViews :
        LET e == Event("configuration-changed", s) IN
        /\ ev' = e
        /\ Finish(Dispatch(e, "", Listeners, Start))
        /\ UNCHANGED <<_view, resolved, pending>>

ActiveTextEditorChanged ==
    \E editor \in Editors :
        LET e == Event("active-editor-changed", editor) IN
        /\ ev' = e
        /\ Finish(Dispatch(e, "", Listeners, Start))
        /\ UNCHANGED <<_view, resolved, pending>>

DocumentSaved ==
    \E f \in Files, disk \in Contents, isVisible \in [1..resolved -> BOOLEAN] :
        LET e == [Event("document-saved", f) EXCEPT !.visible = isVisible, !.disk = disk] IN
        /\ ev' = e
        /\ Finish(Dispatch(e, disk, Listeners, Start))
        /\ UNCHANGED <<_view, resolved, pending>>

VisibilityChanged ==
    \E v \in Views :
        /\ Live(v)
        /\ ev' = Event("visibility-changed", "")
        /\ Finish(onDidChangeVisibility(v, Start))
        /\ UNCHANGED <<_view, resolved, pending>>

Disposed ==
    \E v \in Views :
        /\ Live(v)
        /\ ev' = Event("disposed", "")
        /\ Finish(onDidDispose(v, Start))
        /\ UNCHANGED <<_view, resolved, pending>>

OnFile ==
    \E v \in Views, value \in Values, disk \in Contents :
        /\ Live(v)
        /\ ev' = Event("onFile", value)
        /\ Finish(onFile(v, value, disk, Start))
        /\ UNCHANGED <<_view, resolved, pending>>

OnViewFile ==
    \E value \in Values :
        /\ \E v \in Views : Live(v)
        /\ onViewFile(value) => BagCardinality(pending) < MaxPending
        /\ ev' = Event("onViewFile", value)
        /\ pending' = IF onViewFile(value)
                      THEN pending (+) SetToBag({Suspended("openTextDocument", NoView)})
                      ELSE pending
        /\ Finish(Start)
        /\ UNCHANGED <<_view, resolved>>

OnSaplingVisible ==
    \E v \in Views :
        /\ Live(v)
        /\ ev' = Event("onSaplingVisible",
                       IF ev.type = "document-saved" /\ ~ev.visible[v]
                       THEN AfterHiddenSave ELSE "")
        /\ Finish(onSaplingVisible(v, Start))
        /\ UNCHANGED <<_view, resolved, pending>>

OnSettingsAcquire ==
    \E v \in Views :
        /\ Live(v)
        /\ BagCardinality(pending) < MaxPending
        /\ ev' = Event("onSettingsAcquire", "")
        /\ pending' = pending (+) SetToBag({Suspended("getConfiguration", v)})
        /\ Finish(Start)
        /\ UNCHANGED <<_view, resolved>>

OnNodeToggle ==
    \E id \in NodeIds, expanded \in BOOLEAN :
        /\ \E v \in Views : Live(v)
        /\ ev' = Event("onNodeToggle", "")
        /\ Finish(onNodeToggle(id, expanded, Start))
        /\ UNCHANGED <<_view, resolved, pending>>

OnBoldCheck ==
    \E editor \in Editors :
        /\ \E v \in Views : Live(v)
        /\ ev' = Event("onBoldCheck", editor)
        /\ Finish(onBoldCheck(_view, editor, Start))
        /\ UNCHANGED <<_view, resolved, pending>>

StatusButtonClicked ==
    \E editor \in Editors, disk \in Contents :
        /\ ev' = Event("statusButtonClicked", editor)
        /\ Finish(statusButtonClicked(_view, editor, disk, Start))
        /\ UNCHANGED <<_view, resolved, pending>>

\* a suspended handler continues after its await
Resume ==
    \E h \in BagToSet(pending), s \in SettingsViews :
        LET rest == pending (-) SetToBag({h}) IN
        /\ CASE h.at = "openTextDocument" ->
                  \* const editor = await vscode.window.showTextDocument(doc, ...);
                  \* nothing follows that await, so the handler is over for the provider
                  /\ ev' = Event(h.at, "")
                  /\ pending' = rest
                  /\ Finish(Start)
             [] h.at = "getConfiguration" ->
                  /\ ev' = Event(h.at, s)
                  /\ pending' = rest
                  /\ Finish(onSettingsAcquire(h.view, s, Start))
        /\ UNCHANGED <<_view, resolved>>

Next ==
    \/ ResolveWebviewView
    \/ Revive
    \/ ConfigurationChanged
    \/ ActiveTextEditorChanged
    \/ DocumentSaved
    \/ VisibilityChanged
    \/ Disposed
    \/ OnFile
    \/ OnViewFile
    \/ OnSaplingVisible
    \/ OnSettingsAcquire
    \/ OnNodeToggle
    \/ OnBoldCheck
    \/ StatusButtonClicked
    \/ Resume

Spec == Init /\ [][Next]_vars

(* ------------------------------ properties ----------------------------- *)
Bound == parser # NoParser

\* the messages of one type posted to view v while handling the last event
MessagesTo(v, type) == SelectSeq(sent, LAMBDA m : m.to = v /\ m.type = type)

\* C1: an onNodeToggle handled while no session exists is ignored: the handler
\* raises nothing, the session stays Empty and nothing is sent.
C1_ToggleWithoutSessionIgnored ==
    [][(parser = NoParser /\ ev'.type = "onNodeToggle")
          => (fault' = FALSE /\ parser' = NoParser /\ sent' = <<>>)]_vars

\* C2: a save with a bound session calls updateTree and makes its result the
\* current tree; to a view that is not visible it sends no parsed-data message,
\* to a visible view exactly one, carrying the refreshed tree.
C2_SaveGatedOnVisibility ==
    (ev.type = "document-saved" /\ Bound /\ resolved >= 1) =>
        /\ calls # <<>>
        /\ \A i \in 1..Len(calls) : calls[i] = "updateTree"
        /\ parser.tree = lastResult
        /\ fault = FALSE
        /\ \A v \in 1..resolved :
              /\ ~ev.visible[v] => MessagesTo(v, "parsed-data") = <<>>
              /\ ev.visible[v] =>
                    MessagesTo(v, "parsed-data") =
                        <<[to |-> v, type |-> "parsed-data", value |-> lastResult]>>
        /\ \A i \in 1..Len(sent) : sent[i].type = "parsed-data"

C2_Witness ==
    /\ ev.type = "document-saved" /\ Bound /\ resolved = 2
    /\ ev.visible = <<TRUE, FALSE>>
    /\ ev.value = parser.file
    /\ lastResult.content = "new" /\ lastResult.expanded
    /\ Len(sent) = 1

\* C3: an onFile(b) handled while the session is bound to another file a binds
\* the session to b through a newly constructed parser, and the current tree is
\* the parse of b: nothing of a's parser or tree is left.
C3_OpenReplaces ==
    [][(Bound /\ ev'.type = "onFile" /\ ~Falsy(ev'.value) /\ parser.file # ev'.value)
          => /\ parser'.file = ev'.value
             /\ parser'.id # parser.id
             /\ calls' = <<"new", "parse">>
             /\ \E disk \in Contents :
                   parser'.tree = [owner |-> parser'.id, filePath |-> ev'.value,
                                   fileName |-> ShortName(ev'.value),
                                   content |-> disk, expanded |-> FALSE]
             /\ lastResult' = parser'.tree]_vars

C3_Witness ==
    /\ ev.type = "onFile" /\ ev.value = "src/b.jsx"
    /\ Bound /\ parser.file = "src/b.jsx" /\ parser.id = 1
    /\ calls = <<"new", "parse">>

\* C4: with a bound session of tree T and file name F, onSaplingVisible sends
\* exactly parsed-data(T) and then saved-file(F), to the view the command came
\* from; it does not recompute the tree and leaves the session as it was.
C4_VisibleSendsTreeThenName ==
    [][(Bound /\ ev'.type = "onSaplingVisible")
          => /\ Len(sent') = 2
             /\ sent'[1].type = "parsed-data" /\ sent'[1].value = parser.tree
             /\ sent'[2].type = "saved-file"
             /\ sent'[2].value = Str(parser.tree.fileName)
             /\ sent'[1].to = sent'[2].to /\ sent'[1].to \in 1..resolved
             /\ calls' = <<"getTree">>
             /\ parser' = parser
             /\ fault' = FALSE]_vars

C4_Witness ==
    /\ ev.type = "onSaplingVisible" /\ Bound
    /\ Len(sent) = 2 /\ sent[2].value = Str("b.jsx")
    /\ sent[1].value.expanded /\ sent[1].value.content = "new"

\* C5: onFile with an empty or absent value and onViewFile with an absent value
\* change nothing of the session and send nothing, whatever the state before.
C5_EmptyInputIgnored ==
    [][(\/ ev'.type = "onFile" /\ Falsy(ev'.value)
        \/ ev'.type = "onViewFile" /\ ev'.value = Undefined)
          => /\ parser' = parser
             /\ lastResult' = lastResult
             /\ pending' = pending
             /\ sent' = <<>> /\ calls' = <<>> /\ fault' = FALSE]_vars

C5_Witness ==
    /\ ev.type = "onFile" /\ ev.value = ""
    /\ Bound /\ parser.id = 1 /\ parser.tree.expanded

\* C6: a send attempted while the UI surface does not exist (statusButtonClicked
\* with an active document, before any view was set) raises no error.
C6_SendWithoutViewIsSafe ==
    (ev.type = "statusButtonClicked" /\ ev.value \in Files /\ _view = NoView)
        => fault = FALSE

\* C7: the current tree is defined only if a parser is, and it is the result of
\* the most recent parse/updateTree/getTree of the parser bound now: never the
\* tree of a replaced parser, never behind the last completed operation.
C7_CurrentTreeIsLastResult ==
    /\ ~Bound => lastResult = NoTree
    /\ Bound => /\ parser.tree # NoTree
                /\ parser.tree = lastResult
                /\ parser.tree.owner = parser.id
                /\ parser.tree.filePath = parser.file

C7_Witness ==
    /\ ev.type = "document-saved" /\ calls # <<>>
    /\ Bound /\ parser.id = 1
    /\ lastResult.content = "new" /\ lastResult.expanded

\* C8: once the session is Bound it is Bound in every later state.
C8_BoundStaysBound == [][Bound => Bound']_vars

C8_Witness ==
    /\ Bound /\ ev.type = "disposed"

\* C9: while no session exists, a save and an onSaplingVisible are silent
\* no-ops, the view visible or not: no parser call, no message, still Empty.
C9_NoSessionNoOp ==
    [][(parser = NoParser /\ ev'.type \in {"document-saved", "onSaplingVisible"})
          => /\ parser' = NoParser
             /\ lastResult' = lastResult
             /\ sent' = <<>> /\ calls' = <<>> /\ fault' = FALSE]_vars

C9_Witness ==
    /\ ev.type = "document-saved" /\ ~Bound
    /\ resolved = 2 /\ ev.visible = <<TRUE, FALSE>>

\* C10: onBoldCheck and statusButtonClicked handled while the host has no active
\* document are silently ignored: no fault, no message, session unchanged.
C10_NoActiveDocumentIgnored ==
    (ev.type \in {"onBoldCheck", "statusButtonClicked"} /\ ev.value = NoDoc)
        => (fault = FALSE /\ sent = <<>>)

\* the messages of one type among msgs that went to view v
SentTo(msgs, v, type) == SelectSeq(msgs, LAMBDA m : m.to = v /\ m.type = type)

\* the tree a full parse of file f yields for a parser instance p
FreshTree(p, f, disk) ==
    [owner |-> p.id, filePath |-> f, fileName |-> ShortName(f),
     content |-> disk, expanded |-> FALSE]

C12_StatusButtonOpensActiveFile ==
    [][(ev'.type = "statusButtonClicked" /\ ev'.value \in Files /\ _view # NoView)
          => /\ parser'.file = ev'.value
             /\ Bound => parser'.id # parser.id
             /\ calls' = <<"new", "parse", "getTree">>
             /\ \E disk \in Contents :
                   parser'.tree = FreshTree(parser', ev'.value, disk)
             /\ lastResult' = parser'.tree
             /\ sent' = <<[to |-> _view, type |-> "parsed-data", value |-> parser'.tree],
                          [to |-> _view, type |-> "saved-file",
                           value |-> Str(ShortName(ev'.value))]>>
             /\ fault' = FALSE]_vars

C12_Witness ==
    /\ ev.type = "statusButtonClicked" /\ ev.value = "src/b.jsx"
    /\ _view = 1 /\ parser.id = 1 /\ parser.file = "src/b.jsx"
    /\ Len(sent) = 2 /\ sent[2].value = Str("b.jsx")

C14_OpenSendsOneTree ==
    [][(ev'.type = "onFile" /\ ~Falsy(ev'.value))
          => /\ Len(sent') = 1
             /\ sent'[1].type = "parsed-data"
             /\ sent'[1].to \in 1..resolved
             /\ sent'[1].value = parser'.tree
             /\ \E disk \in Contents :
                   sent'[1].value = FreshTree(parser', ev'.value, disk)
             /\ fault' = FALSE]_vars

C14_Witness ==
    /\ ev.type = "onFile" /\ ev.value = "src/a.jsx"
    /\ parser.id = 1 /\ _view = 2
    /\ sent = <<[to |-> 1, type |-> "parsed-data",
                 value |-> FreshTree(parser, "src/a.jsx", "new")]>>

\* C15: in a session bound to f, a save of any path and an onNodeToggle leave
\* the session bound to f with the same parser instance: no parser is
\* constructed, the bound file stays, and onNodeToggle sends nothing.
C15_SaveAndToggleKeepSession ==
    [][(Bound /\ ev'.type \in {"document-saved", "onNodeToggle"})
          => /\ Bound'
             /\ parser'.id = parser.id
             /\ parser'.file = parser.file
             /\ \A i \in 1..Len(calls') : calls'[i] \in {"updateTree", "toggleNode"}
             /\ ev'.type = "onNodeToggle" =>
                   (sent' = <<>> /\ calls' = <<"toggleNode">> /\ fault' = FALSE)]_vars

C15_Witness ==
    /\ ev.type = "document-saved" /\ Bound
    /\ ev.value # parser.file /\ calls # <<>>
    /\ parser.id = 1 /\ parser.tree.expanded

C17_SessionUpdatesAtomic ==
    [][/\ \A i \in 1..Len(sent') :
             sent'[i].type = "parsed-data" =>
                 /\ Bound'
                 /\ sent'[i].value = parser'.tree
                 /\ sent'[i].value.owner = parser'.id
       /\ (ev'.type = "document-saved" /\ Bound) =>
             /\ parser'.id = parser.id
             /\ parser'.tree.owner = parser.id
       /\ ev'.type \in {"openTextDocument", "getConfiguration", "onViewFile",
                        "onSettingsAcquire"} =>
             /\ parser' = parser /\ lastResult' = lastResult /\ calls' = <<>>
             /\ \A i \in 1..Len(sent') : sent'[i].type # "parsed-data"]_vars

C17_Witness ==
    /\ ev.type = "onFile" /\ ev.value \in Files
    /\ BagCardinality(pending) = 1
    /\ parser.id = 1 /\ Len(sent) = 1 /\ sent[1].value = parser.tree

\* C18: however many times resolveWebviewView has run, one save calls updateTree
\* at most once and sends at most one parsed-data message, and one
\* configuration change sends at most one settings-data message.
C18_OneListenerPerEvent ==
    /\ ev.type = "document-saved" =>
          /\ Len(calls) <= 1
          /\ Len(SelectSeq(sent, LAMBDA m : m.type = "parsed-data")) <= 1
    /\ ev.type = "configuration-changed" =>
          Len(SelectSeq(sent, LAMBDA m : m.type = "settings-data")) <= 1

\* C19: every message goes to the view held in _view, whichever handler sends it.
C19_AllMessagesToCurrentView ==
    \A i \in 1..Len(sent) : sent[i].to = _view
====
